---- MODULE Spec2Model ----
(***************************************************************************)
(* A model of Wykan, a client-side object model over the REST API of a     *)
(* Wekan kanban server: the generic authenticated call with its two error  *)
(* channels, the Board / List entities, creation of a board from a         *)
(* BoardConfiguration, duplication of a board, and the user operations.    *)
(*                                                                         *)
(* The server is the environment.  It is modelled as a faithful store:     *)
(* POSTs append, GETs list in insertion order, a new board gets its owner  *)
(* as first member and one default swimlane.  Any single request may be    *)
(* answered with a fault instead (see Faults).                             *)
(***************************************************************************)
EXTENDS Integers, Sequences, FiniteSets, TLC

VARIABLES
    response,   \* the HTTP response handed to _internal_api_call
    outcome,    \* what _internal_api_call did with it
    boards,     \* server: the boards, a board's id is its index
    users,      \* server: the users, in the order GET /api/users lists them
    log,        \* the state-changing requests the running operation has issued
    pc,         \* position of the running client operation
    op,         \* its arguments and loop indices
    result,     \* how the last client operation ended
    snap,       \* a constructed Board object
    lst         \* a constructed List object

vars == <<response, outcome, boards, users, log, pc, op, result, snap, lst>>

callVars   == <<response, outcome>>
serverVars == <<boards, users>>
clientVars == <<log, pc, op, result, snap, lst>>

None == [kind |-> "none"]

(***************************************************************************)
(* Bounds.                                                                 *)
(***************************************************************************)
MaxContent == 3     \* lexemes in a response body
MaxLists   == 2     \* lists on a board / in a configuration
MaxCards   == 2     \* cards on a board / in a configuration
MaxBoards  == 2     \* boards on the server when boards are looked up by title
MaxSwimlanes == 2   \* swimlanes on a board
MaxUsers   == 2     \* users on the server

RECURSIVE SeqsUpTo(_, _)
SeqsUpTo(S, n) ==
    IF n = 0 THEN {<<>>}
    ELSE LET shorter == SeqsUpTo(S, n - 1)
         IN  shorter \cup {Append(s, x) : s \in {t \in shorter : Len(t) = n - 1}, x \in S}

(***************************************************************************)
(* The generic call: Wykan._internal_api_call.                             *)
(*                                                                         *)
(* A response body is a sequence of byte chunks, written in hexadecimal,   *)
(* one chunk per JSON lexeme; "FF" is a byte that is not UTF-8.            *)
(***************************************************************************)
Statuses == {200, 201, 204, 304, 400, 404, 500}

Chunks == {"7B", "7D", "5B", "5D", "2C",
           "226572726F72223A30", "226B223A30", "226572726F7222", "FF"}

\* bytes.decode('utf-8') of one chunk
Utf8 ==
    [c \in Chunks \ {"FF"} |->
        CASE c = "7B" -> "{"
          [] c = "7D" -> "}"
          [] c = "5B" -> "["
          [] c = "5D" -> "]"
          [] c = "2C" -> ","
          [] c = "226572726F72223A30" -> "\"error\":0"
          [] c = "226B223A30" -> "\"k\":0"
          [] c = "226572726F7222" -> "\"error\""]

Members == {"\"error\":0", "\"k\":0"}
Strings == {"\"error\""}

KeyOf(lexeme) == IF lexeme = "\"error\":0" THEN "error" ELSE "k"

\* api_response.content.decode('utf-8')
Decode(content) ==
    IF \E i \in 1..Len(content) : content[i] = "FF"
    THEN [ok |-> FALSE]
    ELSE [ok |-> TRUE, text |-> [i \in 1..Len(content) |-> Utf8[content[i]]]]

ParseFail == [ok |-> FALSE]

\* the members of an object after "{": t[i] is the next lexeme to read
RECURSIVE ParseMembers(_, _, _)
ParseMembers(t, i, keys) ==
    IF i + 1 > Len(t) \/ t[i] \notin Members THEN ParseFail
    ELSE IF t[i + 1] = "}"
         THEN [ok |-> TRUE, val |-> [type |-> "dict", keys |-> keys \cup {KeyOf(t[i])}],
               next |-> i + 2]
         ELSE IF t[i + 1] = ","
              THEN ParseMembers(t, i + 2, keys \cup {KeyOf(t[i])})
              ELSE ParseFail

RECURSIVE ParseValue(_, _)
RECURSIVE ParseElements(_, _, _)
ParseElements(t, i, items) ==
    LET v == ParseValue(t, i)
    IN  IF ~v.ok \/ v.next > Len(t) THEN ParseFail
        ELSE IF t[v.next] = "]"
             THEN [ok |-> TRUE, val |-> [type |-> "list", items |-> Append(items, v.val)],
                   next |-> v.next + 1]
             ELSE IF t[v.next] = ","
                  THEN ParseElements(t, v.next + 1, Append(items, v.val))
                  ELSE ParseFail

ParseValue(t, i) ==
    IF i > Len(t) THEN ParseFail
    ELSE IF t[i] \in Strings
         THEN [ok |-> TRUE, val |-> [type |-> "str", value |-> "error"], next |-> i + 1]
    ELSE IF t[i] = "{"
         THEN IF i + 1 <= Len(t) /\ t[i + 1] = "}"
              THEN [ok |-> TRUE, val |-> [type |-> "dict", keys |-> {}], next |-> i + 2]
              ELSE ParseMembers(t, i + 1, {})
    ELSE IF t[i] = "["
         THEN IF i + 1 <= Len(t) /\ t[i + 1] = "]"
              THEN [ok |-> TRUE, val |-> [type |-> "list", items |-> <<>>], next |-> i + 2]
              ELSE ParseElements(t, i + 1, <<>>)
    ELSE ParseFail

\* api_response.json()
Json(content) ==
    LET d == Decode(content)
    IN  IF ~d.ok THEN ParseFail
        ELSE LET v == ParseValue(d.text, 1)
             IN  IF v.ok /\ v.next = Len(content) + 1 THEN v ELSE ParseFail

\* requests' Response.ok: raise_for_status() raises for 400 <= status < 600
Ok(status) == ~(400 <= status /\ status < 600)

EmptyDict == [type |-> "dict", keys |-> {}]

\* a mutant: the body is inspected before the status
InternalApiCallBodyFirst(resp) ==
    LET j == Json(resp.content)
    IN  IF resp.content = <<>> THEN [kind |-> "return", value |-> EmptyDict]
        ELSE IF j.ok /\ j.val.type = "dict" /\ "error" \in j.val.keys
             THEN [kind |-> "WekanException", value |-> j.val]
        ELSE IF ~Ok(resp.status)
             THEN IF Decode(resp.content).ok
                  THEN [kind |-> "HTTPError", message |-> Decode(resp.content).text]
                  ELSE [kind |-> "UnicodeDecodeError"]
        ELSE IF ~j.ok THEN [kind |-> "JSONDecodeError"]
        ELSE [kind |-> "return", value |-> j.val]

\* a mutant: a successful status is taken as success
InternalApiCallStatusOnly(resp) ==
    IF ~Ok(resp.status)
    THEN IF Decode(resp.content).ok
         THEN [kind |-> "HTTPError", message |-> Decode(resp.content).text]
         ELSE [kind |-> "UnicodeDecodeError"]
    ELSE IF resp.content = <<>> THEN [kind |-> "return", value |-> EmptyDict]
    ELSE IF ~Json(resp.content).ok THEN [kind |-> "JSONDecodeError"]
    ELSE [kind |-> "return", value |-> Json(resp.content).val]

InternalApiCall(resp) ==
    IF ~Ok(resp.status)
    THEN IF Decode(resp.content).ok
         THEN [kind |-> "HTTPError", message |-> Decode(resp.content).text]
         ELSE [kind |-> "UnicodeDecodeError"]
    ELSE IF resp.content = <<>> THEN [kind |-> "return", value |-> EmptyDict]
    ELSE LET j == Json(resp.content)
         IN  IF ~j.ok THEN [kind |-> "JSONDecodeError"]
             ELSE IF j.val.type = "dict" /\ "error" \in j.val.keys
                  THEN [kind |-> "WekanException", value |-> j.val]
                  ELSE [kind |-> "return", value |-> j.val]

Responses == [status : Statuses, content : SeqsUpTo(Chunks, MaxContent)]

IdleClient ==
    /\ log = <<>>
    /\ pc = "idle"
    /\ op = None
    /\ result = None
    /\ snap = None
    /\ lst = None

InitCall ==
    /\ response \in Responses
    /\ outcome = None
    /\ boards = <<>>
    /\ users = <<>>
    /\ IdleClient

\* get / post / put / delete: one exchange through _internal_api_call
ApiCall ==
    /\ outcome = None
    /\ outcome' = InternalApiCall(response)
    /\ UNCHANGED <<response, serverVars, clientVars>>

NextCall == ApiCall

SpecCall == InitCall /\ [][NextCall]_vars

(***************************************************************************)
(* The server, and the faults one request can be answered with.            *)
(***************************************************************************)
UserIds            == {1, 2}
ListTitles         == {"A", "B"}
CardConfigurations == {[title |-> "x", description |-> "dx"],
                       [title |-> "y", description |-> "dy"]}

Faults == {"none", "http", "service"}

\* what the server sends under each fault
FaultResponse(f) ==
    CASE f = "none"    -> [status |-> 200, content |-> <<"7B", "226B223A30", "7D">>]
      [] f = "http"    -> [status |-> 500, content |-> <<>>]
      [] f = "service" -> [status |-> 200, content |-> <<"7B", "226572726F72223A30", "7D">>]

\* the kind of outcome of one request: "return", "HTTPError" or "WekanException"
RequestKinds == [f \in Faults |-> InternalApiCall(FaultResponse(f)).kind]

Request(f) == RequestKinds[f]

Failed(kind) == [kind |-> kind]

\* the faults of a run of requests: at most one of them is answered with a fault
RECURSIVE FaultRuns(_)
FaultRuns(n) ==
    IF n = 0 THEN {<<>>}
    ELSE {<<"none">> \o t : t \in FaultRuns(n - 1)}
         \cup {<<x>> \o [i \in 1..(n - 1) |-> "none"] : x \in Faults \ {"none"}}

PostAndFetch     == FaultRuns(2)
FetchPostFetch   == FaultRuns(3)

\* POST /api/boards: the owner is the first member, one default swimlane
NewBoard(payload) ==
    [title     |-> payload.title,
     color     |-> IF payload.color = "unset" THEN "belize" ELSE payload.color,
     members   |-> <<[userId |-> payload.owner, isAdmin |-> payload.isAdmin]>>,
     swimlanes |-> <<"Default">>,
     lists     |-> <<>>,
     deleted   |-> FALSE]

\* POST /api/boards/{b}/lists
NewList(payload) == [title |-> payload.title, deleted |-> FALSE, cards |-> <<>>]

ServerAddList(bs, b, payload) ==
    [bs EXCEPT ![b].lists = Append(@, NewList(payload))]

\* POST /api/boards/{b}/lists/{l}/cards
ServerAddCard(bs, b, l, payload) ==
    [bs EXCEPT ![b].lists[l].cards = Append(@, payload)]

(***************************************************************************)
(* Entities.                                                               *)
(***************************************************************************)
\* Board.__init__: the attributes are read once, from GET /api/boards/{id}
BoardObject(bs, id) ==
    [kind    |-> "Board",
     id      |-> id,
     title   |-> bs[id].title,
     color   |-> bs[id].color,
     members |-> [i \in 1..Len(bs[id].members) |->
                    [user |-> bs[id].members[i].userId,
                     is_board_admin |-> bs[id].members[i].isAdmin]]]

IsAdminMember(m) == m.is_board_admin

\* a mutant: an empty list of admins is returned as it is
GetAdminUsersNoCheck(board) ==
    LET admins == SelectSeq(board.members, IsAdminMember)
    IN  [kind |-> "return", value |-> [i \in 1..Len(admins) |-> admins[i].user]]

\* Board.get_admin_users, on the members the Board object holds
GetAdminUsers(board) ==
    LET admins == SelectSeq(board.members, IsAdminMember)
    IN  IF Len(admins) <= 0 THEN Failed("LookupError")
        ELSE [kind |-> "return", value |-> [i \in 1..Len(admins) |-> admins[i].user]]

\* a mutant: an empty list of swimlanes is returned as it is
GetSwimlanesNoCheck(bs, b, f) ==
    IF Request(f) # "return" THEN Failed(Request(f))
    ELSE [kind |-> "return", value |-> [i \in 1..Len(bs[b].swimlanes) |-> <<b, i>>]]

\* Board.get_swimlanes: the ids of the swimlanes, a swimlane's id is <<board, index>>
GetSwimlanes(bs, b, f) ==
    IF Request(f) # "return" THEN Failed(Request(f))
    ELSE IF Len(bs[b].swimlanes) <= 0 THEN Failed("LookupError")
    ELSE [kind |-> "return", value |-> [i \in 1..Len(bs[b].swimlanes) |-> <<b, i>>]]

\* List.__init__, its colour being one of the Colors table
ListObject(bs, b, l) ==
    [kind |-> "List", id |-> l, boardId |-> b, title |-> bs[b].lists[l].title]

\* Card.__init__
CardObject(bs, b, l, c) ==
    [kind |-> "Card", id |-> c, boardId |-> b, listId |-> l,
     title |-> bs[b].lists[l].cards[c].title,
     description |-> bs[b].lists[l].cards[c].description]

\* GET /api/boards/{b}/lists: the ids of the lists the board has, in order
ListIds(bs, b) ==
    LET Ids == [i \in 1..Len(bs[b].lists) |-> i]
        Live(i) == ~bs[b].lists[i].deleted
    IN  SelectSeq(Ids, Live)

\* Board.get_lists
GetLists(bs, b, f) ==
    IF Request(f) # "return" THEN Failed(Request(f))
    ELSE [kind |-> "return",
          value |-> [i \in 1..Len(ListIds(bs, b)) |-> ListObject(bs, b, ListIds(bs, b)[i])]]

\* a mutant: an empty list of cards is returned as it is
GetCardsNoCheck(bs, b, l, f) ==
    IF Request(f) # "return" THEN Failed(Request(f))
    ELSE [kind |-> "return",
          value |-> [c \in 1..Len(bs[b].lists[l].cards) |-> CardObject(bs, b, l, c)]]

\* List.get_cards
GetCards(bs, b, l, f) ==
    IF Request(f) # "return" THEN Failed(Request(f))
    ELSE IF Len(bs[b].lists[l].cards) <= 0 THEN Failed("LookupError")
    ELSE [kind |-> "return",
          value |-> [c \in 1..Len(bs[b].lists[l].cards) |-> CardObject(bs, b, l, c)]]

\* Wykan.get_board
GetBoard ==
    /\ pc = "idle"
    /\ result = None
    /\ \E id \in 1..Len(boards), f \in Faults :
        /\ ~boards[id].deleted
        /\ IF Request(f) # "return"
           THEN result' = Failed(Request(f)) /\ UNCHANGED snap
           ELSE snap' = BoardObject(boards, id) /\ UNCHANGED result
    /\ UNCHANGED <<callVars, serverVars, log, pc, op, lst>>

(***************************************************************************)
(* Wykan.create_board_from_configuration.                                  *)
(***************************************************************************)
RECURSIVE TotalCards(_)
TotalCards(ls) == IF ls = <<>> THEN 0 ELSE Len(Head(ls).cards) + TotalCards(Tail(ls))

ListConfigurations == [title : ListTitles, cards : SeqsUpTo(CardConfigurations, MaxCards)]

ListConfigurationSeqs ==
    {ls \in SeqsUpTo(ListConfigurations, MaxLists) : TotalCards(ls) <= MaxCards}

BoardConfigurations == [title : {"New"}, lists : ListConfigurationSeqs]

\* a request as the log keeps it
Logged(method, path, payload, answer) ==
    [method |-> method, path |-> path, payload |-> payload, answer |-> answer]

\* Wykan.create_board: the request body, color being kwargs.get("color")
NewBoardDetails(title, owner_id, is_admin) ==
    [title |-> title, owner |-> owner_id, isAdmin |-> is_admin, isActive |-> TRUE,
     isNoComments |-> FALSE, isCommentOnly |-> FALSE, permission |-> "private",
     color |-> "unset"]

\* where the loops of create_board_from_configuration stand after list li, card ci
NextPosition(config, li, ci) ==
    IF ci < Len(config.lists[li].cards) THEN [pc |-> "create_card", li |-> li, ci |-> ci + 1]
    ELSE IF li < Len(config.lists) THEN [pc |-> "create_list", li |-> li + 1, ci |-> 0]
    ELSE [pc |-> "done", li |-> li, ci |-> ci]

\* a mutant: the error is swallowed and the operation goes on
RaiseSwallowed(kind) ==
    /\ pc' = pc
    /\ result' = result

\* the operation ends with an error: nothing more is issued
Raise(kind) ==
    /\ pc' = "done"
    /\ result' = Failed(kind)

\* the loops move on, or the board is returned
Advance(o, pos) ==
    /\ pc' = pos.pc
    /\ op' = [o EXCEPT !.li = pos.li, !.ci = pos.ci]
    /\ result' = IF pos.pc = "done" THEN [kind |-> "return", value |-> o.board] ELSE result

\* the record of a running create_board_from_configuration: its configuration, the
\* Board and the id of the List it holds, and the indices of its two loops
Operation(name, config, source) ==
    [name |-> name, config |-> config, source |-> source, fault |-> None,
     board |-> None, list |-> 0, li |-> 0, ci |-> 0]

\* line 168: board = self.create_board(config.title, owner_id, **kwargs)
CreateBoard(o, owner_id, is_admin, f, g) ==
    LET details == NewBoardDetails(o.config.title, owner_id, is_admin)
        created == Append(boards, NewBoard(details))
        new == Len(created)
    IN  /\ log' = Append(log, Logged("POST", "boards", details, f))
        /\ IF Request(f) # "return"
           THEN Raise(Request(f)) /\ op' = o /\ UNCHANGED boards
           ELSE /\ boards' = created
                /\ IF Request(g) # "return"
                   THEN Raise(Request(g)) /\ op' = o
                   ELSE LET o1 == [o EXCEPT !.board = BoardObject(created, new)]
                        IN  IF o.config.lists = <<>>
                            THEN Advance(o1, [pc |-> "done", li |-> 0, ci |-> 0])
                            ELSE Advance(o1, [pc |-> "create_list", li |-> 1, ci |-> 0])

CreateBoardFromConfiguration ==
    /\ pc = "idle"
    /\ \E config \in BoardConfigurations, owner_id \in UserIds, is_admin \in BOOLEAN,
          fs \in PostAndFetch :
            CreateBoard(Operation("create", config, None), owner_id, is_admin, fs[1], fs[2])
    /\ UNCHANGED <<callVars, users, snap, lst>>

\* line 171: new_list = board.create_list(l.title)
CreateList ==
    /\ pc = "create_list"
    /\ \E fs \in PostAndFetch :
        LET b == op.board.id
            details == [title |-> op.config.lists[op.li].title]
            f == fs[1]
            g == fs[2]
        IN  /\ log' = Append(log, Logged("POST", "lists", details, f))
            /\ IF Request(f) # "return"
               THEN Raise(Request(f)) /\ UNCHANGED <<boards, op>>
               ELSE /\ boards' = ServerAddList(boards, b, details)
                    /\ IF Request(g) # "return"
                       THEN Raise(Request(g)) /\ UNCHANGED op
                       ELSE Advance([op EXCEPT !.list = Len(boards[b].lists) + 1],
                                    NextPosition(op.config, op.li, 0))
    /\ UNCHANGED <<callVars, users, snap, lst>>

\* a mutant: title and description change places
CardDataSwapped(bs, b, title, description, e) ==
    IF Request(e) # "return" THEN Failed(Request(e))
    ELSE LET admins == GetAdminUsers(BoardObject(bs, b))
             swimlanes == GetSwimlanes(bs, b, "none")
         IN  IF admins.kind # "return" THEN admins
             ELSE IF swimlanes.kind # "return" THEN swimlanes
             ELSE [kind |-> "return",
                   value |-> [title |-> description, description |-> title,
                              authorId |-> admins.value[1],
                              swimlaneId |-> swimlanes.value[1]]]

\* List.create_card on list l of board b: what it raises before the POST, or the
\* request body; e is the fault of the GETs that come first
CardData(bs, b, title, description, e) ==
    IF Request(e) # "return" THEN Failed(Request(e))
    ELSE LET admins == GetAdminUsers(BoardObject(bs, b))
             swimlanes == GetSwimlanes(bs, b, "none")
         IN  IF admins.kind # "return" THEN admins
             ELSE IF swimlanes.kind # "return" THEN swimlanes
             ELSE [kind |-> "return",
                   value |-> [title |-> title, description |-> description,
                              authorId |-> admins.value[1],
                              swimlaneId |-> swimlanes.value[1]]]

\* line 174: new_list.create_card(card.title, card.description)
CreateCard ==
    /\ pc = "create_card"
    /\ \E fs \in FetchPostFetch :
        LET e == fs[1]
            f == fs[2]
            g == fs[3]
            b == op.board.id
            l == op.list
            card == op.config.lists[op.li].cards[op.ci]
            data == CardData(boards, b, card.title, card.description, e)
        IN  IF data.kind # "return"
            THEN Raise(data.kind) /\ UNCHANGED <<boards, op, log>>
            ELSE /\ log' = Append(log, Logged("POST", "cards", data.value, f))
                 /\ IF Request(f) # "return"
                    THEN Raise(Request(f)) /\ UNCHANGED <<boards, op>>
                    ELSE /\ boards' = ServerAddCard(boards, b, l, data.value)
                         /\ IF Request(g) # "return"
                            THEN Raise(Request(g)) /\ UNCHANGED op
                            ELSE Advance(op, NextPosition(op.config, op.li, op.ci))
    /\ UNCHANGED <<callVars, users, snap, lst>>

(***************************************************************************)
(* Wykan.duplicate_board.                                                  *)
(***************************************************************************)
\* a mutant: the inner handler catches every error
ListCardsCatchAll(r) ==
    IF r.kind = "return"
    THEN [kind |-> "return",
          value |-> [i \in 1..Len(r.value) |->
                       [title |-> r.value[i].title, description |-> r.value[i].description]]]
    ELSE [kind |-> "return", value |-> <<>>]

\* lines 188-195: the cards of one list, r being what l.get_cards() did
ListCards(r) ==
    IF r.kind = "return"
    THEN [kind |-> "return",
          value |-> [i \in 1..Len(r.value) |->
                       [title |-> r.value[i].title, description |-> r.value[i].description]]]
    ELSE IF r.kind = "LookupError" THEN [kind |-> "return", value |-> <<>>]
    ELSE r

\* lines 187-199: the loop over the lists ls, the k-th being read next, with the
\* ListConfigurations appended so far; fault f hits the k-th get_cards when at = k
RECURSIVE ReadLists(_, _, _, _, _, _)
ReadLists(bs, ls, k, at, f, lists) ==
    IF k > Len(ls) THEN [kind |-> "return", value |-> lists]
    ELSE LET cards == ListCards(GetCards(bs, ls[k].boardId, ls[k].id,
                                         IF at = k THEN f ELSE "none"))
         IN  IF cards.kind = "LookupError" THEN [kind |-> "return", value |-> lists]
             ELSE IF cards.kind # "return" THEN cards
             ELSE ReadLists(bs, ls, k + 1, at, f,
                            Append(lists, [title |-> ls[k].title, cards |-> cards.value]))

\* lines 184-199: the lists of the configuration; fault f hits get_lists when at = 0
DuplicateLists(bs, source_board, at, f) ==
    LET ls == GetLists(bs, source_board.id, IF at = 0 THEN f ELSE "none")
    IN  IF ls.kind = "LookupError" THEN [kind |-> "return", value |-> <<>>]
        ELSE IF ls.kind # "return" THEN ls
        ELSE ReadLists(bs, ls.value, 1, at, f, <<>>)

\* a mutant: the owner is the first member
DuplicateOwnerFirstMember(source_board) ==
    IF source_board.members = <<>> THEN Failed("LookupError")
    ELSE [kind |-> "return", value |-> source_board.members[1].user]

\* a mutant: the admins are those the server has when the board is duplicated
DuplicateOwnerFromServer(source_board) ==
    LET admins == GetAdminUsers(BoardObject(boards, source_board.id))
    IN  IF admins.kind # "return" THEN admins
        ELSE [kind |-> "return", value |-> admins.value[1]]

\* line 201: source_board.get_admin_users()[0].id
DuplicateOwner(source_board) ==
    LET admins == GetAdminUsers(source_board)
    IN  IF admins.kind # "return" THEN admins
        ELSE [kind |-> "return", value |-> admins.value[1]]

DuplicateBoard ==
    /\ pc = "idle"
    /\ result = None
    /\ snap # None
    /\ \E at \in 0..Len(ListIds(boards, snap.id)), r \in Faults, fs \in PostAndFetch :
        LET read == DuplicateLists(boards, snap, at, r)
            owner == DuplicateOwner(snap)
            o == [Operation("duplicate", None, snap) EXCEPT
                    !.fault = IF r # "none" THEN [at |-> at, kind |-> Request(r)] ELSE None]
            f == fs[1]
            g == fs[2]
        IN  IF read.kind # "return"
            THEN Raise(read.kind) /\ op' = o /\ UNCHANGED <<boards, log>>
            ELSE LET o1 == [o EXCEPT !.config = [title |-> "Copy", lists |-> read.value]]
                 IN  IF owner.kind # "return"
                     THEN Raise(owner.kind) /\ op' = o1 /\ UNCHANGED <<boards, log>>
                     ELSE CreateBoard(o1, owner.value, TRUE, f, g)
    /\ UNCHANGED <<callVars, users, snap, lst>>

MemberSeqs ==
    {m \in SeqsUpTo([userId : UserIds, isAdmin : BOOLEAN], Cardinality(UserIds)) :
        \A i, j \in 1..Len(m) : i # j => m[i].userId # m[j].userId}

\* the lists of a configuration as a server holds them
ServerLists(lists) ==
    [i \in 1..Len(lists) |->
        [title |-> lists[i].title, deleted |-> FALSE,
         cards |-> [j \in 1..Len(lists[i].cards) |->
                      [title |-> lists[i].cards[j].title,
                       description |-> lists[i].cards[j].description,
                       authorId |-> CHOOSE u \in UserIds : TRUE,
                       swimlaneId |-> <<1, 1>>]]]]

SourceBoards ==
    {[title |-> "Src", color |-> "pomegranate", members |-> m, swimlanes |-> <<"Default">>,
      lists |-> ServerLists(ls), deleted |-> FALSE] :
        m \in MemberSeqs, ls \in ListConfigurationSeqs}

InitDup ==
    /\ response = None
    /\ outcome = None
    /\ boards \in {<<b>> : b \in SourceBoards}
    /\ users = <<>>
    /\ IdleClient

NextDup == GetBoard \/ DuplicateBoard \/ CreateList \/ CreateCard

SpecDup == InitDup /\ [][NextDup]_vars

InitCreate ==
    /\ response = None
    /\ outcome = None
    /\ boards = <<>>
    /\ users = <<>>
    /\ IdleClient

NextCreate == CreateBoardFromConfiguration \/ CreateList \/ CreateCard

SpecCreate == InitCreate /\ [][NextCreate]_vars

(***************************************************************************)
(* Boards by title: Wykan.get_board_by_title, Wykan.delete_board_by_title. *)
(***************************************************************************)
BoardTitles == {"Sprint 1", "Sprint 2"}

\* GET /api/users/{user_id}/boards: the ids of the boards the user is a member of
UserBoardIds(bs, user_id) ==
    LET Ids == [i \in 1..Len(bs) |-> i]
        Mine(i) == /\ ~bs[i].deleted
                   /\ \E k \in 1..Len(bs[i].members) : bs[i].members[k].userId = user_id
    IN  SelectSeq(Ids, Mine)

\* Wykan.get_user_boards
GetUserBoards(bs, user_id, f) ==
    IF Request(f) # "return" THEN Failed(Request(f))
    ELSE [kind |-> "return",
          value |-> [i \in 1..Len(UserBoardIds(bs, user_id)) |->
                       BoardObject(bs, UserBoardIds(bs, user_id)[i])]]

\* Wykan.get_board_by_title: the f-string of line 108 names board_name, which is not
\* defined (NameError); found_boards[0] of an empty list is an IndexError
GetBoardByTitle(bs, user_id, title, f) ==
    LET user_boards == GetUserBoards(bs, user_id, f)
    IN  IF user_boards.kind # "return" THEN user_boards
        ELSE LET Titled(board) == board.title = title
                 found_boards == SelectSeq(user_boards.value, Titled)
             IN  IF Len(user_boards.value) <= 0 THEN Failed("NameError")
                 ELSE IF found_boards = <<>> THEN Failed("IndexError")
                 ELSE [kind |-> "return", value |-> found_boards[1]]

Lookup(name, user_id, title, f) ==
    [name |-> name, user |-> user_id, title |-> title, fault |-> f]

BoardByTitle ==
    /\ pc = "idle"
    /\ result = None
    /\ \E user_id \in UserIds, title \in BoardTitles \cup {"Sprint 3"}, f \in Faults :
        /\ op' = Lookup("get_board_by_title", user_id, title, f)
        /\ result' = GetBoardByTitle(boards, user_id, title, f)
    /\ UNCHANGED <<callVars, serverVars, log, pc, snap, lst>>

\* Wykan.delete_board_by_title; a served DELETE leaves the client ready for more
DeleteBoardByTitle ==
    /\ pc = "idle"
    /\ result = None
    /\ \E user_id \in UserIds, title \in BoardTitles \cup {"Sprint 3"}, fs \in PostAndFetch :
        LET board == GetBoardByTitle(boards, user_id, title, fs[1])
        IN  IF board.kind # "return"
            THEN /\ result' = board
                 /\ op' = Lookup("delete_board_by_title", user_id, title, fs[1])
                 /\ UNCHANGED <<boards, log>>
            ELSE /\ log' = Append(log, Logged("DELETE", "boards", [id |-> board.value.id], fs[2]))
                 /\ IF Request(fs[2]) # "return"
                    THEN /\ result' = Failed(Request(fs[2]))
                         /\ op' = Lookup("delete_board_by_title", user_id, title, fs[2])
                         /\ UNCHANGED boards
                    ELSE /\ boards' = [boards EXCEPT ![board.value.id].deleted = TRUE]
                         /\ UNCHANGED <<result, op>>
    /\ UNCHANGED <<callVars, users, pc, snap, lst>>

TitledBoards ==
    {[title |-> t, color |-> "belize", members |-> <<[userId |-> u, isAdmin |-> TRUE]>>,
      swimlanes |-> <<"Default">>, lists |-> <<>>, deleted |-> FALSE] :
        t \in BoardTitles, u \in UserIds}

InitBoards ==
    /\ response = None
    /\ outcome = None
    /\ boards \in SeqsUpTo(TitledBoards, MaxBoards)
    /\ users = <<>>
    /\ IdleClient

NextBoards == BoardByTitle \/ DeleteBoardByTitle

SpecBoards == InitBoards /\ [][NextBoards]_vars

(***************************************************************************)
(* The operations of a Board object that change the board on the server.   *)
(***************************************************************************)
IsMember(bs, b, user_id) ==
    \E k \in 1..Len(bs[b].members) : bs[b].members[k].userId = user_id

\* POST /api/boards/{b}/members/{user_id}
ServerSetPermissions(bs, b, user_id, is_admin) ==
    [bs EXCEPT ![b].members =
        [k \in 1..Len(@) |-> IF @[k].userId = user_id
                             THEN [userId |-> user_id, isAdmin |-> is_admin] ELSE @[k]]]

\* POST /api/boards/{b}/members/{user_id}/add
ServerAddMember(bs, b, user_id, is_admin) ==
    IF IsMember(bs, b, user_id) THEN ServerSetPermissions(bs, b, user_id, is_admin)
    ELSE [bs EXCEPT ![b].members = Append(@, [userId |-> user_id, isAdmin |-> is_admin])]

\* a mutant: the Board object is refreshed from the server after a change
BoardAfterRefreshed(board, bs) == BoardObject(bs, board.id)

\* the Board object after one of its methods has changed the server: no method
\* assigns an attribute
BoardAfter(board, bs) == board

\* Board.change_member_permissions
ChangeMemberPermissions ==
    /\ pc = "idle" /\ result = None /\ snap # None
    /\ \E user_id \in UserIds, is_board_admin \in BOOLEAN, f \in Faults :
        /\ boards' = IF Request(f) = "return"
                     THEN ServerSetPermissions(boards, snap.id, user_id, is_board_admin)
                     ELSE boards
        /\ snap' = BoardAfter(snap, boards')
    /\ UNCHANGED <<callVars, users, log, pc, op, result, lst>>

\* Board.add_board_member
AddBoardMember ==
    /\ pc = "idle" /\ result = None /\ snap # None
    /\ \E user_id \in UserIds, is_board_admin \in BOOLEAN, f \in Faults :
        /\ boards' = IF Request(f) = "return"
                     THEN ServerAddMember(boards, snap.id, user_id, is_board_admin)
                     ELSE boards
        /\ snap' = BoardAfter(snap, boards')
    /\ UNCHANGED <<callVars, users, log, pc, op, result, lst>>

\* Board.create_list
BoardCreateList ==
    /\ pc = "idle" /\ result = None /\ snap # None
    /\ Len(boards[snap.id].lists) < MaxLists
    /\ \E title \in ListTitles, f \in Faults :
        /\ boards' = IF Request(f) = "return"
                     THEN ServerAddList(boards, snap.id, [title |-> title])
                     ELSE boards
        /\ snap' = BoardAfter(snap, boards')
    /\ UNCHANGED <<callVars, users, log, pc, op, result, lst>>

\* Board.delete_list
DeleteList ==
    /\ pc = "idle" /\ result = None /\ snap # None
    /\ \E k \in 1..Len(ListIds(boards, snap.id)), f \in Faults :
        /\ boards' = IF Request(f) = "return"
                     THEN [boards EXCEPT
                             ![snap.id].lists[ListIds(boards, snap.id)[k]].deleted = TRUE]
                     ELSE boards
        /\ snap' = BoardAfter(snap, boards')
    /\ UNCHANGED <<callVars, users, log, pc, op, result, lst>>

SwimlaneTitles == {"Sprint"}

\* Board.add_swimlane
AddSwimlane ==
    /\ pc = "idle" /\ result = None /\ snap # None
    /\ Len(boards[snap.id].swimlanes) < MaxSwimlanes
    /\ \E title \in SwimlaneTitles, f \in Faults :
        /\ boards' = IF Request(f) = "return"
                     THEN [boards EXCEPT ![snap.id].swimlanes = Append(@, title)]
                     ELSE boards
        /\ snap' = BoardAfter(snap, boards')
    /\ UNCHANGED <<callVars, users, log, pc, op, result, lst>>

Query(name, f) == [name |-> name, fault |-> f]

\* Board.get_admin_users, called on the Board object
BoardGetAdminUsers ==
    /\ pc = "idle" /\ result = None /\ snap # None
    /\ op' = Query("get_admin_users", "none")
    /\ result' = GetAdminUsers(snap)
    /\ UNCHANGED <<callVars, serverVars, log, pc, snap, lst>>

EmptyBoards ==
    {[title |-> "Src", color |-> "pomegranate", members |-> m, swimlanes |-> sw,
      lists |-> <<>>, deleted |-> FALSE] :
        m \in MemberSeqs, sw \in {<<>>, <<"Default">>}}

Init ==
    /\ response = None
    /\ outcome = None
    /\ boards \in {<<b>> : b \in EmptyBoards}
    /\ users = <<>>
    /\ IdleClient

Next ==
    \/ GetBoard
    \/ ChangeMemberPermissions
    \/ AddBoardMember
    \/ BoardCreateList
    \/ DeleteList
    \/ AddSwimlane
    \/ BoardGetAdminUsers

Spec == Init /\ [][Next]_vars

(***************************************************************************)
(* The reads of a Board and of a List.                                     *)
(***************************************************************************)
\* Board.get_list
BoardGetList ==
    /\ pc = "idle" /\ result = None /\ snap # None /\ lst = None
    /\ \E k \in 1..Len(ListIds(boards, snap.id)), f \in Faults :
        IF Request(f) # "return"
        THEN result' = Failed(Request(f)) /\ op' = Query("get_list", f) /\ UNCHANGED lst
        ELSE lst' = ListObject(boards, snap.id, ListIds(boards, snap.id)[k])
             /\ UNCHANGED <<result, op>>
    /\ UNCHANGED <<callVars, serverVars, log, pc, snap>>

\* Board.get_swimlanes, called on the Board object
BoardGetSwimlanes ==
    /\ pc = "idle" /\ result = None /\ snap # None
    /\ \E f \in Faults :
        /\ op' = Query("get_swimlanes", f)
        /\ result' = GetSwimlanes(boards, snap.id, f)
    /\ UNCHANGED <<callVars, serverVars, log, pc, snap, lst>>

\* List.get_cards, called on the List object
ListGetCards ==
    /\ pc = "idle" /\ result = None /\ lst # None
    /\ \E f \in Faults :
        /\ op' = Query("get_cards", f)
        /\ result' = GetCards(boards, lst.boardId, lst.id, f)
    /\ UNCHANGED <<callVars, serverVars, log, pc, snap, lst>>

EntityBoards ==
    {[title |-> "Src", color |-> "pomegranate", members |-> m, swimlanes |-> sw,
      lists |-> ServerLists(ls), deleted |-> FALSE] :
        m \in MemberSeqs, sw \in SeqsUpTo(SwimlaneTitles, MaxSwimlanes),
        ls \in ListConfigurationSeqs}

InitEntities ==
    /\ response = None
    /\ outcome = None
    /\ boards \in {<<b>> : b \in EntityBoards}
    /\ users = <<>>
    /\ IdleClient

NextEntities ==
    GetBoard \/ BoardGetList \/ BoardGetAdminUsers \/ BoardGetSwimlanes \/ ListGetCards

SpecEntities == InitEntities /\ [][NextEntities]_vars

(***************************************************************************)
(* Users: Wykan.get_user_by_username, Wykan.delete_user_by_username.       *)
(***************************************************************************)
UserNames == {"alice", "bob", "carol"}

\* the id the server gave each user
UserIdOf == [n \in UserNames |->
                CASE n = "alice" -> 2 [] n = "bob" -> 1 [] n = "carol" -> 3]

\* User.__init__: the id and the username the server has for it
UserObject(us, i) == [kind |-> "User", id |-> us[i].id, username |-> us[i].username]

\* Wykan.get_all_users
GetAllUsers(us, f) ==
    IF Request(f) # "return" THEN Failed(Request(f))
    ELSE [kind |-> "return", value |-> [i \in 1..Len(us) |-> UserObject(us, i)]]

\* a mutant: an unknown username is an error, as an empty collection is elsewhere
GetUserByUsernameOrRaise(us, username, f) ==
    LET all_users == GetAllUsers(us, f)
    IN  IF all_users.kind # "return" THEN all_users
        ELSE LET Named(user) == user.username = username
                 named == SelectSeq(all_users.value, Named)
             IN  IF named = <<>> THEN Failed("LookupError")
                 ELSE [kind |-> "return", value |-> named[1]]

\* Wykan.get_user_by_username: the first user of that name, or None
GetUserByUsername(us, username, f) ==
    LET all_users == GetAllUsers(us, f)
    IN  IF all_users.kind # "return" THEN all_users
        ELSE LET Named(user) == user.username = username
                 named == SelectSeq(all_users.value, Named)
             IN  [kind |-> "return", value |-> IF named = <<>> THEN None ELSE named[1]]

\* DELETE /api/users/{id}
ServerDeleteUser(us, id) == LET Other(u) == u.id # id IN SelectSeq(us, Other)

UserCall(name, username, fs, before) ==
    [name |-> name, username |-> username, faults |-> fs, before |-> before]

\* Wykan.delete_user_by_username, with Wykan.delete_user
DeleteUserByUsername ==
    /\ pc = "idle"
    /\ \E username \in UserNames, fs \in PostAndFetch :
        LET user == GetUserByUsername(users, username, fs[1])
        IN  /\ op' = UserCall("delete_user_by_username", username, fs, users)
            /\ IF user.kind # "return"
               THEN result' = user /\ log' = <<>> /\ UNCHANGED users
               ELSE IF user.value = None
                    THEN /\ result' = [kind |-> "return", value |-> None]
                         /\ log' = <<>>
                         /\ UNCHANGED users
                    ELSE /\ log' = <<Logged("DELETE", "users", [id |-> user.value.id], fs[2])>>
                         /\ IF Request(fs[2]) # "return"
                            THEN result' = Failed(Request(fs[2])) /\ UNCHANGED users
                            ELSE /\ users' = ServerDeleteUser(users, user.value.id)
                                 /\ result' = [kind |-> "return", value |-> user.value.id]
    /\ UNCHANGED <<callVars, boards, pc, snap, lst>>

\* Wykan.get_user_by_username, called by the user of the library
UserByUsername ==
    /\ pc = "idle"
    /\ \E username \in UserNames, f \in Faults :
        /\ op' = UserCall("get_user_by_username", username, <<f>>, users)
        /\ result' = GetUserByUsername(users, username, f)
        /\ log' = <<>>
    /\ UNCHANGED <<callVars, serverVars, pc, snap, lst>>

UserRecords == {[id |-> UserIdOf[n], username |-> n] : n \in UserNames}

\* usernames are unique on the server
UserSeqs ==
    {us \in SeqsUpTo(UserRecords, MaxUsers) :
        \A i, j \in 1..Len(us) : i # j => us[i].username # us[j].username}

InitUsers ==
    /\ response = None
    /\ outcome = None
    /\ boards = <<>>
    /\ users \in UserSeqs
    /\ IdleClient

NextUsers == DeleteUserByUsername \/ UserByUsername

SpecUsers == InitUsers /\ [][NextUsers]_vars

(***************************************************************************)
(* List.create_card, called on a List object while the board changes.      *)
(***************************************************************************)
\* a mutant: the author is taken from the Board object the caller already holds
CreateCardDataHeld(bs, held, l, title, description, e) ==
    IF Request(e) # "return" THEN Failed(Request(e))
    ELSE LET admins == GetAdminUsers(held)
             swimlanes == GetSwimlanes(bs, l.boardId, "none")
         IN  IF admins.kind # "return" THEN admins
             ELSE IF swimlanes.kind # "return" THEN swimlanes
             ELSE [kind |-> "return",
                   value |-> [title |-> title, description |-> description,
                              authorId |-> admins.value[1],
                              swimlaneId |-> swimlanes.value[1]]]

\* lines 35-42: board = self._api.get_board(self.boardId), then card_data; the
\* Board object the caller holds is not an argument of the method
CreateCardData(bs, held, l, title, description, e) ==
    CardData(bs, l.boardId, title, description, e)

\* the record of a call of List.create_card: the server before the call
CardCall(title, description, fs, before) ==
    [name |-> "create_card", title |-> title, description |-> description,
     faults |-> fs, before |-> before]

\* List.create_card, called on the List object
ListCreateCard ==
    /\ pc = "idle" /\ result = None /\ lst # None
    /\ Len(boards[lst.boardId].lists[lst.id].cards) < MaxCards
    /\ \E card \in CardConfigurations, fs \in FetchPostFetch :
        LET b == lst.boardId
            l == lst.id
            data == CreateCardData(boards, snap, lst, card.title, card.description, fs[1])
            created == ServerAddCard(boards, b, l, data.value)
        IN  /\ op' = CardCall(card.title, card.description, fs, boards)
            /\ IF data.kind # "return"
               THEN result' = data /\ UNCHANGED <<boards, log>>
               ELSE /\ log' = Append(log, Logged("POST", "cards", data.value, fs[2]))
                    /\ IF Request(fs[2]) # "return"
                       THEN result' = Failed(Request(fs[2])) /\ UNCHANGED boards
                       ELSE /\ boards' = created
                            /\ result' =
                                 IF Request(fs[3]) # "return" THEN Failed(Request(fs[3]))
                                 ELSE [kind |-> "return",
                                       value |-> CardObject(created, b, l,
                                                    Len(created[b].lists[l].cards))]
    /\ UNCHANGED <<callVars, users, pc, snap, lst>>

CardBoards ==
    {[title |-> "Src", color |-> "pomegranate", members |-> m, swimlanes |-> sw,
      lists |-> ServerLists(<<[title |-> "A", cards |-> cs]>>), deleted |-> FALSE] :
        m \in MemberSeqs, sw \in {<<>>, <<"Default">>},
        cs \in SeqsUpTo(CardConfigurations, MaxCards - 1)}

InitCards ==
    /\ response = None
    /\ outcome = None
    /\ boards \in {<<b>> : b \in CardBoards}
    /\ users = <<>>
    /\ IdleClient

NextCards ==
    \/ GetBoard
    \/ BoardGetList
    \/ ChangeMemberPermissions
    \/ AddBoardMember
    \/ AddSwimlane
    \/ ListCreateCard

SpecCards == InitCards /\ [][NextCards]_vars

(***************************************************************************)
(* Wykan.duplicate_board of a Board object fetched before the board's      *)
(* members changed.                                                        *)
(***************************************************************************)
StaleBoards ==
    {[title |-> "Src", color |-> "pomegranate", members |-> m, swimlanes |-> <<"Default">>,
      lists |-> ServerLists(ls), deleted |-> FALSE] :
        m \in MemberSeqs,
        ls \in {c \in ListConfigurationSeqs : Len(c) <= 1 /\ TotalCards(c) <= 1}}

InitStale ==
    /\ response = None
    /\ outcome = None
    /\ boards \in {<<b>> : b \in StaleBoards}
    /\ users = <<>>
    /\ IdleClient

NextStale ==
    \/ GetBoard
    \/ ChangeMemberPermissions
    \/ AddBoardMember
    \/ DuplicateBoard
    \/ CreateList
    \/ CreateCard

SpecStale == InitStale /\ [][NextStale]_vars

(***************************************************************************)
(* Properties.                                                             *)
(***************************************************************************)
IsPrefix(s, t) == Len(s) <= Len(t) /\ \A i \in 1..Len(s) : s[i] = t[i]

\* the lists a board has and their cards, as a configuration would describe them
Skeleton(bs, b) ==
    [i \in 1..Len(ListIds(bs, b)) |->
        LET l == bs[b].lists[ListIds(bs, b)[i]]
        IN  [title |-> l.title,
             cards |-> [j \in 1..Len(l.cards) |->
                          [title |-> l.cards[j].title,
                           description |-> l.cards[j].description]]]]

Item(path, title, description) ==
    [path |-> path, title |-> title, description |-> description]

\* list 1, its cards, list 2, its cards, ...
RECURSIVE Traversal(_)
Traversal(lists) ==
    IF lists = <<>> THEN <<>>
    ELSE <<Item("lists", Head(lists).title, "")>>
         \o [j \in 1..Len(Head(lists).cards) |->
                Item("cards", Head(lists).cards[j].title, Head(lists).cards[j].description)]
         \o Traversal(Tail(lists))

LogItem(entry) ==
    Item(entry.path, entry.payload.title,
         IF entry.path = "cards" THEN entry.payload.description ELSE "")

LogItems(entries) == [i \in 1..Len(entries) |-> LogItem(entries[i])]

Answered(entries) == LET Served(e) == e.answer = "none" IN SelectSeq(entries, Served)

Expected(config) == <<Item("boards", config.title, "")>> \o Traversal(config.lists)

HasAdmin(board) == \E i \in 1..Len(board.members) : board.members[i].is_board_admin

FirstAdmin(board) ==
    LET i == CHOOSE k \in 1..Len(board.members) :
                /\ board.members[k].is_board_admin
                /\ \A j \in 1..(k - 1) : ~board.members[j].is_board_admin
    IN  board.members[i].user

Running(name) == op # None /\ op.name = name

Errors == {"HTTPError", "WekanException", "LookupError", "NameError", "IndexError",
           "KeyError", "UnicodeDecodeError", "JSONDecodeError"}

\* the chunk-by-chunk text of a body
Verbatim(message, content) ==
    /\ Len(message) = Len(content)
    /\ \A i \in 1..Len(content) : content[i] # "FF" /\ message[i] = Utf8[content[i]]

Called == outcome # None

\* C1, as stated: a response with an error status makes the call fail with the
\* transport error, whose message is the body verbatim, whatever the body is.
C1_AsStated ==
    (Called /\ ~Ok(response.status)) =>
        /\ outcome.kind = "HTTPError"
        /\ Verbatim(outcome.message, response.content)

\* C1, amended: a response with an error status (400 to 599) never returns and never
\* raises the service error; when its body is UTF-8 text the call fails with the
\* transport error, whose message is that text verbatim, and otherwise with the
\* decoder's error.
C1_ErrorStatus ==
    (Called /\ ~Ok(response.status)) =>
        IF Decode(response.content).ok
        THEN outcome.kind = "HTTPError" /\ Verbatim(outcome.message, response.content)
        ELSE outcome.kind = "UnicodeDecodeError"

C1_Witness ==
    /\ Called
    /\ response.status = 500
    /\ response.content = <<"7B", "226572726F72223A30", "7D">>
    /\ outcome.kind = "HTTPError"

Is2xx(status) == 200 <= status /\ status < 300

HasErrorKey(j) == j.ok /\ j.val.type = "dict" /\ "error" \in j.val.keys

\* C2, as stated: a 2xx response with a non-empty body makes the call fail with the
\* service error when the body holds the key "error", and otherwise return the
\* decoded body.
C2_AsStated ==
    (Called /\ Is2xx(response.status) /\ response.content # <<>>) =>
        IF HasErrorKey(Json(response.content))
        THEN outcome.kind = "WekanException"
        ELSE /\ outcome.kind = "return"
             /\ Json(response.content).ok
             /\ outcome.value = Json(response.content).val

\* C2, amended: a 2xx response with a non-empty body that is valid JSON makes the
\* call fail with the service error when the decoded object holds the key "error",
\* and otherwise return the decoded body; a body that is not valid JSON makes it
\* fail with the decoder's error.
C2_ServiceError ==
    (Called /\ Is2xx(response.status) /\ response.content # <<>>) =>
        IF ~Json(response.content).ok THEN outcome.kind = "JSONDecodeError"
        ELSE IF HasErrorKey(Json(response.content))
             THEN outcome.kind = "WekanException"
             ELSE outcome.kind = "return" /\ outcome.value = Json(response.content).val

C2_Witness ==
    /\ Called
    /\ response.status = 200
    /\ response.content = <<"7B", "226572726F72223A30", "7D">>
    /\ outcome.kind = "WekanException"

\* C4: when create_board_from_configuration returns, the new board holds the lists
\* of the configuration, in order, each with its cards, in order, with their titles
\* and descriptions; the requests were the board's, then list by list, each list's
\* before its cards', and every one was served.
C4_CreateFromConfiguration ==
    (Running("create") /\ result.kind = "return") =>
        /\ result.value = op.board
        /\ boards[op.board.id].title = op.config.title
        /\ Skeleton(boards, op.board.id) = op.config.lists
        /\ LogItems(log) = Expected(op.config)
        /\ \A i \in 1..Len(log) : log[i].method = "POST" /\ log[i].answer = "none"

C4_Witness ==
    /\ Running("create")
    /\ result.kind = "return"
    /\ op.config.lists =
         <<[title |-> "A", cards |-> <<[title |-> "x", description |-> "dx"],
                                       [title |-> "y", description |-> "dy"]>>],
           [title |-> "B", cards |-> <<>>]>>

\* the board the running operation has created, if it has
CreatedBoard == IF log # <<>> /\ log[1].answer = "none" THEN Len(boards) ELSE 0

\* C7: a request of create_board_from_configuration that fails is the last one
\* issued and its error is how the operation ends; no request but POSTs is issued;
\* what the new board holds is a prefix of the configuration in traversal order,
\* namely what the served requests asked for.
C7_PartialFailure ==
    Running("create") =>
        /\ \A i \in 1..Len(log) :
              /\ log[i].method = "POST"
              /\ log[i].answer # "none" =>
                    /\ i = Len(log)
                    /\ pc = "done"
                    /\ result.kind = Request(log[i].answer)
        /\ result.kind \in Errors => pc = "done"
        /\ IsPrefix(LogItems(log), Expected(op.config))
        /\ CreatedBoard # 0 =>
              /\ IsPrefix(Traversal(Skeleton(boards, CreatedBoard)), Traversal(op.config.lists))
              /\ <<Item("boards", op.config.title, "")>>
                    \o Traversal(Skeleton(boards, CreatedBoard)) = LogItems(Answered(log))

C7_Witness ==
    /\ Running("create")
    /\ result.kind = "HTTPError"
    /\ Len(log) >= 3
    /\ log[Len(log)].answer = "http"
    /\ Len(Traversal(Skeleton(boards, CreatedBoard))) = Len(log) - 2
    /\ Len(log) < Len(Expected(op.config))

\* C5: when duplicate_board returns, the new board is titled as asked, its owner is
\* the first admin of the source Board, and it has the lists of the source, in
\* order, each with the source's cards by title and description, in order; the
\* requests carry the title, the owner and the defaults for the board, a title for
\* a list, and title, description, the new board's admin and swimlane for a card.
\* With an admin on the source it ends in an error only when a request is answered
\* with one.
C5_Duplicate ==
    Running("duplicate") =>
        /\ result.kind = "return" =>
              /\ HasAdmin(op.source)
              /\ LET new == result.value.id
                     owner == FirstAdmin(op.source)
                 IN
                  /\ new # op.source.id
                  /\ boards[new].title = "Copy"
                  /\ boards[new].members
                        = <<[userId |-> owner, isAdmin |-> TRUE]>>
                  /\ Skeleton(boards, new) = Skeleton(boards, op.source.id)
                  /\ log[1].payload = NewBoardDetails("Copy", owner, TRUE)
                  /\ \A i \in 2..Len(log) :
                        IF log[i].path = "lists"
                        THEN DOMAIN log[i].payload = {"title"}
                        ELSE /\ DOMAIN log[i].payload
                                  = {"title", "description", "authorId", "swimlaneId"}
                             /\ log[i].payload.authorId = owner
                             /\ log[i].payload.swimlaneId = <<new, 1>>
        /\ (HasAdmin(op.source) /\ result.kind \in Errors) =>
              result.kind \in {"HTTPError", "WekanException"}

C5_Witness ==
    /\ Running("duplicate")
    /\ result.kind = "return"
    /\ Len(op.source.members) = 2
    /\ ~op.source.members[1].is_board_admin
    /\ Skeleton(boards, op.source.id) =
         <<[title |-> "A", cards |-> <<[title |-> "x", description |-> "dx"]>>],
           [title |-> "B", cards |-> <<>>]>>

NotFound == {"LookupError", "IndexError", "KeyError"}

Least(S) == CHOOSE i \in S : \A j \in S : i <= j

\* C3: get_board_by_title returns the first board of the user, in the server's
\* order, that has the title, and fails with not-found, and nothing else, when the
\* user has no board of that title.
C3_BoardByTitle ==
    (Running("get_board_by_title") /\ op.fault = "none") =>
        LET Titled == {i \in 1..Len(boards) :
                         /\ ~boards[i].deleted
                         /\ IsMember(boards, i, op.user)
                         /\ boards[i].title = op.title}
        IN  IF Titled # {}
            THEN result.kind = "return" /\ result.value.id = Least(Titled)
            ELSE result.kind \in NotFound

RECURSIVE AdminsOf(_)
AdminsOf(members) ==
    IF members = <<>> THEN <<>>
    ELSE (IF Head(members).is_board_admin THEN <<Head(members).user>> ELSE <<>>)
         \o AdminsOf(Tail(members))

\* C8: get_swimlanes fails with not-found exactly when the board has no swimlane,
\* get_cards exactly when the list has no card, get_admin_users exactly when no
\* member of the Board is an admin; otherwise each returns all of them in the
\* server's order, and none returns an empty sequence.
C8_EmptyIsError ==
    /\ Running("get_swimlanes") =>
         IF op.fault # "none" THEN result.kind = Request(op.fault)
         ELSE IF boards[snap.id].swimlanes = <<>> THEN result.kind = "LookupError"
         ELSE /\ result.kind = "return"
              /\ result.value = [i \in 1..Len(boards[snap.id].swimlanes) |-> <<snap.id, i>>]
    /\ Running("get_cards") =>
         LET cards == boards[lst.boardId].lists[lst.id].cards
         IN  IF op.fault # "none" THEN result.kind = Request(op.fault)
             ELSE IF cards = <<>> THEN result.kind = "LookupError"
             ELSE /\ result.kind = "return"
                  /\ Len(result.value) = Len(cards)
                  /\ \A c \in 1..Len(cards) :
                        /\ result.value[c].id = c
                        /\ result.value[c].title = cards[c].title
                        /\ result.value[c].description = cards[c].description
    /\ Running("get_admin_users") =>
         IF ~HasAdmin(snap) THEN result.kind = "LookupError"
         ELSE result.kind = "return" /\ result.value = AdminsOf(snap.members)
    /\ (op # None /\ op.name \in {"get_swimlanes", "get_cards", "get_admin_users"}
          /\ result.kind = "return") => result.value # <<>>

C8_Witness ==
    /\ Running("get_swimlanes")
    /\ op.fault = "none"
    /\ boards[snap.id].swimlanes = <<>>
    /\ result.kind = "LookupError"

\* C9: delete_user_by_username of a name no user has returns nothing, issues no
\* DELETE and leaves the users as they were; of a name a user has, it issues one
\* DELETE, for that user's id, returns the id, and the user is fetched no more.
C9_DeleteUser ==
    Running("delete_user_by_username") =>
        LET Named == {i \in 1..Len(op.before) : op.before[i].username = op.username}
        IN  /\ (Named = {} /\ op.faults[1] = "none") =>
                  /\ result = [kind |-> "return", value |-> None]
                  /\ log = <<>>
                  /\ users = op.before
            /\ (Named # {} /\ op.faults = <<"none", "none">>) =>
                  LET user == op.before[Least(Named)]
                      Other(u) == u.id # user.id
                  IN  /\ result = [kind |-> "return", value |-> user.id]
                      /\ Len(log) = 1
                      /\ log[1].method = "DELETE" /\ log[1].path = "users"
                      /\ log[1].payload.id = user.id
                      /\ users = SelectSeq(op.before, Other)
                      /\ \A i \in 1..Len(users) : users[i].username # op.username
                      /\ GetUserByUsername(users, op.username, "none").value = None
            /\ result.kind \in Errors =>
                  /\ users = op.before
                  /\ result.kind \in {"HTTPError", "WekanException"}

C9_Witness ==
    /\ Running("delete_user_by_username")
    /\ op.username = "alice"
    /\ Len(op.before) = 2
    /\ op.before[2].username = "alice"
    /\ result = [kind |-> "return", value |-> UserIdOf["alice"]]
    /\ Len(users) = 1

\* C10: a step that changes the board on the server leaves the Board object as it
\* was; the Board object changes only by being constructed anew, and is then what
\* the server has at that moment; get_admin_users answers from the Board object.
C10_Snapshot ==
    /\ [][/\ boards' # boards => snap' = snap
          /\ snap' # snap => (boards' = boards /\ snap' = BoardObject(boards, snap'.id))]_vars
    /\ [](Running("get_admin_users") =>
            (result.kind = "return") = HasAdmin(snap))

C10_Witness ==
    /\ Running("get_admin_users")
    /\ result.kind = "return"
    /\ ~HasAdmin(BoardObject(boards, snap.id))
    /\ Len(boards[snap.id].lists) > 0

\* C11: List.create_card takes author and swimlane from the board as the server
\* holds it when it is called, whatever Board object was fetched earlier.  With its
\* requests served, the one POST carries the first admin and the first swimlane the
\* server has then, and the card is appended to the list; when the server then has
\* no admin or no swimlane on the board, it fails with not-found, issues no POST
\* and leaves the server as it was.  A failing request never makes a second POST.
C11_CreateCardLive ==
    Running("create_card") =>
        LET b == lst.boardId
            l == lst.id
            live == BoardObject(op.before, b)
            able == HasAdmin(live) /\ Len(op.before[b].swimlanes) > 0
            served == \A i \in 1..Len(op.faults) : op.faults[i] = "none"
        IN  /\ Len(log) <= 1
            /\ (served /\ ~able) =>
                  /\ result.kind = "LookupError"
                  /\ log = <<>>
                  /\ boards = op.before
            /\ ~able => (log = <<>> /\ boards = op.before)
            /\ (served /\ able) =>
                  /\ result.kind = "return"
                  /\ Len(log) = 1
                  /\ log[1].method = "POST" /\ log[1].path = "cards"
                  /\ log[1].payload =
                        [title |-> op.title, description |-> op.description,
                         authorId |-> FirstAdmin(live), swimlaneId |-> <<b, 1>>]
                  /\ boards = ServerAddCard(op.before, b, l, log[1].payload)
            /\ (able /\ Len(log) = 1) => log[1].payload.authorId = FirstAdmin(live)
            /\ log = <<>> => boards = op.before

\* the Board object fetched earlier has another first admin than the server has
\* when create_card is called, and the card is created
C11_Witness ==
    /\ Running("create_card")
    /\ result.kind = "return"
    /\ HasAdmin(snap)
    /\ FirstAdmin(snap) # FirstAdmin(BoardObject(op.before, lst.boardId))
    /\ Len(log) = 1

\* the Board object fetched earlier has an admin, the server has none left when
\* create_card is called
C11_WitnessNoAdmin ==
    /\ Running("create_card")
    /\ result.kind = "LookupError"
    /\ HasAdmin(snap)
    /\ ~HasAdmin(BoardObject(op.before, lst.boardId))

\* C12: when the Board object given to duplicate_board has no member with admin
\* rights, whatever the server holds by then, the call ends in one step with an
\* error, not-found when its reads are served, and that step issues no request
\* that creates anything and leaves the boards of the server as they were; nothing
\* of the call is ever logged and no board is returned.
C12_NoAdminNoCreation ==
    /\ [][(op = None /\ op' # None /\ op'.name = "duplicate" /\ ~HasAdmin(snap)) =>
            /\ boards' = boards
            /\ log' = log
            /\ pc' = "done"
            /\ result'.kind \in {"LookupError", "HTTPError", "WekanException"}
            /\ op'.fault = None => result'.kind = "LookupError"
            /\ op'.fault # None => result'.kind = op'.fault.kind]_vars
    /\ []((Running("duplicate") /\ ~HasAdmin(op.source)) =>
            /\ pc = "done"
            /\ log = <<>>
            /\ Len(boards) = 1
            /\ result.kind # "return")

\* the Board object has no admin, the server has one by the time of the call, and
\* the board has a list with a card
C12_Witness ==
    /\ Running("duplicate")
    /\ result.kind = "LookupError"
    /\ ~HasAdmin(op.source)
    /\ HasAdmin(BoardObject(boards, op.source.id))
    /\ op.config.lists = <<[title |-> "A", cards |-> <<[title |-> "x", description |-> "dx"]>>]>>

====
